---- MODULE Spec2Model ----
(***************************************************************************)
(* Quantum Tic-Tac-Toe rule engine (src/quantum_ttt.py,                    *)
(* class QuantumTicTacToeLogic).                                           *)
(*                                                                         *)
(* The variable `self` is the engine object: a record of its fields.       *)
(* Each public method is an operator that maps the object and the          *)
(* arguments to the call's outcome: what it returns (or the AssertionError *)
(* of a failed `assert`) and the object after the call.  Each action is    *)
(* one call by any caller of the engine.  A call that raises or returns    *)
(* False changes no field and is a stuttering step.  Two history variables *)
(* are kept beside the object: `call`, the last call that went through,    *)
(* and `legal`, whether every placement since the last reset was on two    *)
(* empty squares (the check the engine leaves to its callers).             *)
(* The variable `temp_first_cell` is the field of QuantumTicTacToeGUI that  *)
(* holds the first square of a pair between two clicks.                    *)
(*                                                                         *)
(* The variable `coin` is the QuantumCoin object (src/quantum_coin.py)     *)
(* with the frame of its caller and the positions of its refill threads.  *)
(*                                                                         *)
(* Five specifications share the engine's operators, and a sixth is the   *)
(* coin's:                                                                 *)
(*   Spec        the engine driven by any caller, on squares 0..MaxCell;   *)
(*   SpecGui     the same in short games, with the GUI's quantum collapse  *)
(*               button and new-game button and with check_winner();       *)
(*   SpecWide    the engine on squares 0..MaxCellWide, driven by callers   *)
(*               that place on empty squares only;                         *)
(*   SpecClicks  the engine driven through the GUI's handlers: clicks on   *)
(*               the squares, the quantum collapse button, new game;       *)
(*   SpecWinner  check_winner() applied to boards drawn from all ways to   *)
(*               give the nine squares to X, to O or to nobody;            *)
(*   SpecCoin    flip() interleaved with the refill threads.               *)
(*                                                                         *)
(* Python's None is modelled by "None" for optional players, by NoSquare   *)
(* for an optional square and by NoMark for an empty board entry.          *)
(* Python lists are 0-based; collapse_index keeps its 0-based value and    *)
(* the model reads collapse_moves[collapse_index + 1].  A Move's cells     *)
(* tuple (c1, c2) is <<c1, c2>>: cells[1] is Python's cells[0].            *)
(***************************************************************************)
EXTENDS Integers, Sequences, FiniteSets, TLC

VARIABLES self, call, legal, temp_first_cell, coin

vars == <<self, call, legal, temp_first_cell, coin>>

----------------------------------------------------------------------------
(* Bounds of the model *)

\* squares 0..MaxCell are the ones callers pass to the engine
MaxCell == 2

\* at most MaxMoves placements are made between two resets
MaxMoves == 4

(* Program constants *)

\* the board has 9 squares: [None] * 9
NumSquares == 9

Squares == 0 .. (NumSquares - 1)

Cells == 0 .. MaxCell

Players == {"X", "O"}

NoSquare == -1

NoMark == <<"None", 0>>

\* dataclass Move(player, index, cells, collapsed_to=None)
Move(p, i, c1, c2) ==
    [player |-> p, index |-> i, cells |-> <<c1, c2>>, collapsed_to |-> NoSquare]

----------------------------------------------------------------------------
(* Helpers *)

Min(S) == CHOOSE x \in S : \A y \in S : x <= y

RECURSIVE SetToSeq(_)
\* the elements of a set of squares, in ascending order
SetToSeq(S) ==
    IF S = {} THEN <<>> ELSE <<Min(S)>> \o SetToSeq(S \ {Min(S)})

\* a variant that never changes sides
other_player_same(p) == p

\* a variant that always answers X
other_player_X(p) == "X"

other_player(p) == IF p = "X" THEN "O" ELSE "X"

\* adjacency among the squares touched by the moves ms
build_adjacency(ms) ==
    LET touched == UNION {{ms[i].cells[1], ms[i].cells[2]} : i \in DOMAIN ms}
    IN  [s \in touched |->
            {ms[i].cells[2] : i \in {j \in DOMAIN ms : ms[j].cells[1] = s}}
            \cup
            {ms[i].cells[1] : i \in {j \in DOMAIN ms : ms[j].cells[2] = s}}]

\* adj.get(node, [])
AdjGet(adj, node) == IF node \in DOMAIN adj THEN adj[node] ELSE {}

RECURSIVE ComponentLoop(_, _, _)
\* the `while stack` loop of get_connected_component; the stack pops at its end
ComponentLoop(adj, stack, component) ==
    IF stack = <<>> THEN component
    ELSE LET node == stack[Len(stack)]
             rest == SubSeq(stack, 1, Len(stack) - 1)
         IN  IF node \notin component
             THEN ComponentLoop(adj,
                      rest \o SetToSeq(AdjGet(adj, node) \ (component \cup {node})),
                      component \cup {node})
             ELSE ComponentLoop(adj, rest, component)

\* a variant that stops at the neighbours of the start node
get_connected_component_near(adj, start_node) ==
    {start_node} \cup AdjGet(adj, start_node)

get_connected_component(adj, start_node) ==
    ComponentLoop(adj, <<start_node>>, {})

RECURSIVE BfsLoop(_, _, _, _)
\* the `while q` loop of bfs_reachable; q pops at its front
BfsLoop(adj, target, q, visited) ==
    IF q = <<>> THEN FALSE
    ELSE LET u == Head(q)
             fresh == AdjGet(adj, u) \ visited
         IN  IF target \in AdjGet(adj, u) THEN TRUE
             ELSE BfsLoop(adj, target, Tail(q) \o SetToSeq(fresh),
                          visited \cup fresh)

\* a variant that looks at the neighbours of start only
bfs_reachable_direct(adj, start, target) ==
    start = target \/ target \in AdjGet(adj, start)

bfs_reachable(adj, start, target) ==
    IF start = target THEN TRUE
    ELSE BfsLoop(adj, target, <<start>>, {start})

\* a variant that looks at the graph after the new pair is inserted
would_create_loop_after(ms, a, b) ==
    bfs_reachable(build_adjacency(Append(ms, Move("X", 0, a, b))), a, b)

\* would_create_loop reads self.moves, the ledger passed here as ms
would_create_loop(ms, a, b) ==
    bfs_reachable(build_adjacency(ms), a, b)

----------------------------------------------------------------------------
(* reset(), also run by __init__ *)

\* a variant that leaves the last episode's chooser and cursor in place
reset_keepsEpisode ==
    [moves |-> <<>>,
     collapsed_board |-> [s \in 0 .. 8 |-> <<"None", 0>>],
     move_counter |-> [p \in {"X", "O"} |-> 0],
     current_player |-> "X",
     mode |-> "PLAY",
     collapse_chooser |-> "O",
     cycle_creator |-> "None",
     next_player_after_collapse |-> "None",
     collapse_moves |-> <<>>,
     collapse_index |-> 1]

reset ==
    [moves |-> <<>>,
     collapsed_board |-> [s \in Squares |-> NoMark],
     move_counter |-> [p \in Players |-> 0],
     current_player |-> "X",
     mode |-> "PLAY",
     collapse_chooser |-> "None",
     cycle_creator |-> "None",
     next_player_after_collapse |-> "None",
     collapse_moves |-> <<>>,
     collapse_index |-> 0]

----------------------------------------------------------------------------
(* add_spooky_move(cell1, cell2) *)

\* a variant that implicates every move of the ledger
to_collapse_all(ms, involved_squares) == ms

\* the loop `for m in self.moves` that fills to_collapse
to_collapse(ms, involved_squares) ==
    SelectSeq(ms, LAMBDA m : m.cells[1] \in involved_squares)

\* a variant that copies: every move stays in the ledger
to_keep_all(ms, involved_squares) == ms

\* the same loop's else branch, which fills to_keep
to_keep(ms, involved_squares) ==
    SelectSeq(ms, LAMBDA m : m.cells[1] \notin involved_squares)

\* a variant that leaves collapse_index at 0
IndexOfMove_zero(cm, mv) == 0

\* the enumerate loop that looks for mv; collapse_index stays 0 if it is absent
IndexOfMove(cm, mv) ==
    IF \E i \in DOMAIN cm : cm[i] = mv
    THEN Min({i \in DOMAIN cm : cm[i] = mv}) - 1
    ELSE 0

\* a variant without the second assert
AddPrecondition_modeOnly(s, cell1, cell2) == s.mode = "PLAY"

\* the two asserts at the top of add_spooky_move
AddPrecondition(s, cell1, cell2) == s.mode = "PLAY" /\ cell1 # cell2

\* a variant that forgets the increment
Incremented_same(counter, p) == counter

\* move_counter[current_player] += 1
Incremented(counter, p) == [counter EXCEPT ![p] = counter[p] + 1]

\* the call on the engine s: [ret, self], self being the engine afterwards
add_spooky_move(s, cell1, cell2) ==
    IF ~AddPrecondition(s, cell1, cell2)
    THEN [ret |-> "AssertionError", self |-> s]
    ELSE LET loop == would_create_loop(s.moves, cell1, cell2)
             counter == Incremented(s.move_counter, s.current_player)
             idx == counter[s.current_player]
             mv == Move(s.current_player, idx, cell1, cell2)
             appended == Append(s.moves, mv)
             involved_squares ==
                 get_connected_component(build_adjacency(appended), cell1)
         IN  IF loop
             THEN [ret |-> "None",
                   self |-> [s EXCEPT
                       !.move_counter = counter,
                       !.cycle_creator = s.current_player,
                       !.collapse_chooser = other_player(s.current_player),
                       !.next_player_after_collapse = other_player(s.current_player),
                       !.collapse_moves = to_collapse(appended, involved_squares),
                       !.moves = to_keep(appended, involved_squares),
                       !.mode = "COLLAPSE",
                       !.collapse_index =
                           IndexOfMove(to_collapse(appended, involved_squares), mv)]]
             ELSE [ret |-> "None",
                   self |-> [s EXCEPT
                       !.move_counter = counter,
                       !.moves = appended,
                       !.current_player = other_player(s.current_player)]]

----------------------------------------------------------------------------
(* collapse_step(chosen_cell) *)

\* the squares of m that are still empty on board, in the order of m.cells
free(m, board) ==
    SelectSeq(m.cells, LAMBDA c : board[c] = NoMark)

RECURSIVE ForcedPass(_, _, _, _)
\* one `for m in self.collapse_moves` pass, from position i on; the board
\* changes inside the pass, so a later move sees the earlier resolutions
ForcedPass(cm, board, i, changed) ==
    IF i > Len(cm) THEN [cm |-> cm, board |-> board, changed |-> changed]
    ELSE IF cm[i].collapsed_to = NoSquare /\ Len(free(cm[i], board)) = 1
         THEN LET c == free(cm[i], board)[1]
              IN  ForcedPass([cm EXCEPT ![i].collapsed_to = c],
                             [board EXCEPT ![c] = <<cm[i].player, cm[i].index>>],
                             i + 1, TRUE)
         ELSE ForcedPass(cm, board, i + 1, changed)

\* a variant that scans the implicated moves once
ForcedPropagation_onePass(cm, board) ==
    LET r == ForcedPass(cm, board, 1, FALSE)
    IN  [cm |-> r.cm, board |-> r.board]

\* a variant that resolves no forced move
ForcedPropagation_none(cm, board) == [cm |-> cm, board |-> board]

RECURSIVE ForcedPropagation(_, _)
\* the `while changed` loop
ForcedPropagation(cm, board) ==
    LET r == ForcedPass(cm, board, 1, FALSE)
    IN  IF r.changed THEN ForcedPropagation(r.cm, r.board)
        ELSE [cm |-> r.cm, board |-> r.board]

\* a variant that leaves the cursor where it is
AdvanceCursor_stay(cm, idx) == idx

RECURSIVE AdvanceCursor(_, _)
\* the loop that moves collapse_index past the resolved moves
AdvanceCursor(cm, idx) ==
    IF idx < Len(cm) /\ cm[idx + 1].collapsed_to # NoSquare
    THEN AdvanceCursor(cm, idx + 1)
    ELSE idx

\* a variant without the test that the chosen square is still empty
Rejected_cellsOnly(mv, board, chosen_cell) ==
    chosen_cell \notin {mv.cells[1], mv.cells[2]}

\* a variant without the test that the chosen square is one of the move's two
Rejected_occupiedOnly(mv, board, chosen_cell) ==
    board[chosen_cell] # NoMark

\* the two `return False` tests on the chosen cell
Rejected(mv, board, chosen_cell) ==
    \/ chosen_cell \notin {mv.cells[1], mv.cells[2]}
    \/ board[chosen_cell] # NoMark

\* a variant that leaves the turn with the player who closed the loop
ResumingPlayer_current(next_player, current) == current

\* `if self.next_player_after_collapse:` then it moves next
ResumingPlayer(next_player, current) ==
    IF next_player # "None" THEN next_player ELSE current

\* a variant without the assert
CollapsePrecondition_none(s) == TRUE

\* the assert at the top of collapse_step
CollapsePrecondition(s) == s.mode = "COLLAPSE"

\* a variant that clears the episode's fields when the episode ends
collapse_step_clearing(s, chosen_cell) ==
    IF ~CollapsePrecondition(s)
    THEN [ret |-> "AssertionError", self |-> s]
    ELSE IF s.collapse_index >= Len(s.collapse_moves)
    THEN [ret |-> "True", self |-> s]
    ELSE LET mv == s.collapse_moves[s.collapse_index + 1]
         IN  IF Rejected(mv, s.collapsed_board, chosen_cell)
             THEN [ret |-> "False", self |-> s]
             ELSE LET r == ForcedPropagation(
                              [s.collapse_moves EXCEPT
                                  ![s.collapse_index + 1].collapsed_to = chosen_cell],
                              [s.collapsed_board EXCEPT
                                  ![chosen_cell] = <<mv.player, mv.index>>])
                      cursor == AdvanceCursor(r.cm, s.collapse_index)
                  IN  IF cursor >= Len(r.cm)
                      THEN [ret |-> "True",
                            self |-> [s EXCEPT
                                !.collapsed_board = r.board,
                                !.collapse_moves = <<>>,
                                !.collapse_index = 0,
                                !.cycle_creator = "None",
                                !.collapse_chooser = "None",
                                !.next_player_after_collapse = "None",
                                !.mode = "PLAY",
                                !.current_player =
                                    ResumingPlayer(s.next_player_after_collapse,
                                                   s.current_player)]]
                      ELSE [ret |-> "True",
                            self |-> [s EXCEPT
                                !.collapse_moves = r.cm,
                                !.collapsed_board = r.board,
                                !.collapse_index = cursor]]

\* the call on the engine s: [ret, self], self being the engine afterwards
collapse_step(s, chosen_cell) ==
    IF ~CollapsePrecondition(s)
    THEN [ret |-> "AssertionError", self |-> s]
    ELSE IF s.collapse_index >= Len(s.collapse_moves)
    THEN [ret |-> "True", self |-> s]
    ELSE LET mv == s.collapse_moves[s.collapse_index + 1]
         IN  IF Rejected(mv, s.collapsed_board, chosen_cell)
             THEN [ret |-> "False", self |-> s]
             ELSE LET r == ForcedPropagation(
                              [s.collapse_moves EXCEPT
                                  ![s.collapse_index + 1].collapsed_to = chosen_cell],
                              [s.collapsed_board EXCEPT
                                  ![chosen_cell] = <<mv.player, mv.index>>])
                      cursor == AdvanceCursor(r.cm, s.collapse_index)
                      done == cursor >= Len(r.cm)
                  IN  [ret |-> "True",
                       self |-> [s EXCEPT
                           !.collapse_moves = r.cm,
                           !.collapsed_board = r.board,
                           !.collapse_index = cursor,
                           !.mode = IF done THEN "PLAY" ELSE s.mode,
                           !.current_player =
                               IF done
                               THEN ResumingPlayer(s.next_player_after_collapse,
                                                   s.current_player)
                               ELSE s.current_player]]

----------------------------------------------------------------------------
(* check_winner() *)

\* the result None, as a tuple like the other results
NoResult == <<"None">>

\* the None that a draw carries in the place of a line
NoLine == <<>>

\* the list `lines`, in its order
lines ==
    << <<0, 1, 2>>, <<3, 4, 5>>, <<6, 7, 8>>,
       <<0, 3, 6>>, <<1, 4, 7>>, <<2, 5, 8>>,
       <<0, 4, 8>>, <<2, 4, 6>> >>

\* a variant without the test that the three marks are of one player
SamePlayer_any(ca, cb, cc) == TRUE

\* pa == pb == pc
SamePlayer(ca, cb, cc) == ca[1] = cb[1] /\ cb[1] = cc[1]

\* `if ca and cb and cc` and the test inside it, for a line of wins[p]
WonBy(board, l, p) ==
    LET ca == board[l[1]]
        cb == board[l[2]]
        cc == board[l[3]]
    IN  /\ ca # NoMark /\ cb # NoMark /\ cc # NoMark
        /\ SamePlayer(ca, cb, cc)
        /\ ca[1] = p

\* s = ia + ib + ic
LineSum(board, l) == board[l[1]][2] + board[l[2]][2] + board[l[3]][2]

\* wins[p] after the loop over lines: the pairs (line, s) in the order of lines
wins(board, p) ==
    LET won == SelectSeq(lines, LAMBDA l : WonBy(board, l, p))
    IN  [i \in 1 .. Len(won) |-> <<won[i], LineSum(board, won[i])>>]

\* a variant that takes the first entry
MinBySum_first(w) == w[1]

\* min(w, key=lambda t: t[1]): the first entry with the least sum
MinBySum(w) ==
    w[Min({i \in DOMAIN w : \A j \in DOMAIN w : w[i][2] <= w[j][2]})]

\* a variant that gives X the tie
Less_orEqual(a, b) == a <= b

\* x_sum < o_sum, o_sum < x_sum
Less(a, b) == a < b

\* a variant that wipes the board it has judged
check_winner_wiping(s) ==
    [ret |-> NoResult,
     self |-> [s EXCEPT !.collapsed_board = [q \in Squares |-> NoMark]]]

\* the call on the engine s: [ret, self]; no field of the engine is assigned
check_winner(s) ==
    LET wx == wins(s.collapsed_board, "X")
        wo == wins(s.collapsed_board, "O")
        x == MinBySum(wx)
        o == MinBySum(wo)
    IN  [self |-> s,
         ret |->
            IF wx = <<>> /\ wo = <<>> THEN NoResult
            ELSE IF wx # <<>> /\ wo = <<>> THEN <<"X", x[1], x[2]>>
            ELSE IF wo # <<>> /\ wx = <<>> THEN <<"O", o[1], o[2]>>
            ELSE IF Less(x[2], o[2]) THEN <<"X", x[1], x[2], <<"O", o[1], o[2]>>>>
            ELSE IF Less(o[2], x[2]) THEN <<"O", o[1], o[2], <<"X", x[1], x[2]>>>>
            ELSE <<"DRAW", NoLine, x[2]>>]

----------------------------------------------------------------------------
(* QuantumTicTacToeGUI.quantum_collapse_current_move() *)

\* quantum_coin.flip() raised: the `except Exception` branch is taken
FlipRaises == -1

\* what a call of quantum_coin.flip() can do: return 0, return 1, or raise
FlipOutcomes == {0, 1, FlipRaises}

\* the handler after the try block, with the bit that flip() returned
AfterFlip(s, bit) ==
    LET mv == s.collapse_moves[s.collapse_index + 1]
        a == mv.cells[1]
        b == mv.cells[2]
        first == IF bit = 0 THEN a ELSE b
        other == IF first = a THEN b ELSE a
    IN  IF s.collapsed_board[first] # NoMark /\ s.collapsed_board[other] # NoMark
        THEN [ret |-> "None", self |-> s]
        ELSE LET chosen_cell ==
                     IF s.collapsed_board[first] # NoMark THEN other ELSE first
             IN  [ret |-> "None", self |-> collapse_step(s, chosen_cell).self]

\* a variant that collapses to the first square when flip() raises
quantum_collapse_current_move_fallback(s, outcome) ==
    IF s.mode # "COLLAPSE" \/ s.collapse_index >= Len(s.collapse_moves)
    THEN [ret |-> "None", self |-> s]
    ELSE AfterFlip(s, IF outcome = FlipRaises THEN 0 ELSE outcome)

\* the handler on the engine s, flip() doing `outcome`: [ret, self]
quantum_collapse_current_move(s, outcome) ==
    IF s.mode # "COLLAPSE" \/ s.collapse_index >= Len(s.collapse_moves)
    THEN [ret |-> "None", self |-> s]
    ELSE IF outcome = FlipRaises
    THEN [ret |-> "None", self |-> s]
    ELSE AfterFlip(s, outcome)

----------------------------------------------------------------------------
(* QuantumTicTacToeGUI.on_cell_click(idx) *)

\* the handler made no call on the engine
NoCall == [op |-> "none", args |-> <<>>, ret |-> "None"]

\* a variant that takes an occupied square too
OccupiedClick_never(s, idx) == FALSE

\* `if self.logic.collapsed_board[idx] is not None`
OccupiedClick(s, idx) == s.collapsed_board[idx] # NoMark

\* a variant that takes the same square twice
SameSquare_never(temp, idx) == FALSE

\* `if idx == self.temp_first_cell`
SameSquare(temp, idx) == idx = temp

\* the handler on the engine s and the field temp: the engine and the field
\* afterwards, the call it made on the engine, and AssertionError if that raised
handle_play_click(s, temp, idx) ==
    IF OccupiedClick(s, idx)
    THEN [ret |-> "None", self |-> s, temp_first_cell |-> temp, call |-> NoCall]
    ELSE IF temp = NoSquare
    THEN [ret |-> "None", self |-> s, temp_first_cell |-> idx, call |-> NoCall]
    ELSE IF SameSquare(temp, idx)
    THEN [ret |-> "None", self |-> s, temp_first_cell |-> temp, call |-> NoCall]
    ELSE LET r == add_spooky_move(s, temp, idx)
             made == [op |-> "add_spooky_move", args |-> <<temp, idx>>,
                      ret |-> r.ret]
         IN  IF r.ret = "AssertionError"
             THEN [ret |-> "AssertionError", self |-> s,
                   temp_first_cell |-> temp, call |-> made]
             ELSE [ret |-> "None", self |-> r.self,
                   temp_first_cell |-> NoSquare, call |-> made]

handle_collapse_click(s, temp, idx) ==
    IF s.collapse_index >= Len(s.collapse_moves)
    THEN [ret |-> "None", self |-> s, temp_first_cell |-> temp, call |-> NoCall]
    ELSE LET mv == s.collapse_moves[s.collapse_index + 1]
         IN  IF idx \notin {mv.cells[1], mv.cells[2]}
                \/ s.collapsed_board[idx] # NoMark
             THEN [ret |-> "None", self |-> s, temp_first_cell |-> temp,
                   call |-> NoCall]
             ELSE LET r == collapse_step(s, idx)
                      made == [op |-> "collapse_step", args |-> <<idx>>,
                               ret |-> r.ret]
                  IN  [ret |-> IF r.ret = "AssertionError" THEN r.ret ELSE "None",
                       self |-> r.self, temp_first_cell |-> temp, call |-> made]

on_cell_click(s, temp, idx) ==
    IF s.mode = "PLAY"
    THEN handle_play_click(s, temp, idx)
    ELSE handle_collapse_click(s, temp, idx)

----------------------------------------------------------------------------
(* QuantumCoin (src/quantum_coin.py): the buffer of measured bits, the one *)
(* caller of flip() and the background threads that run _refill_buffer.   *)
(* No lock guards the fields: every load and every store of a field is a  *)
(* step of its own, and the steps of the caller and of the threads are    *)
(* interleaved in any order.  A position is named by the source line it   *)
(* is about to run.                                                        *)

\* bits of one quantum job (the constructor's `shots`)
Shots == 2
\* refill threads alive at the same time
MaxThreads == 2

Bits == {0, 1}
Threads == 1 .. MaxThreads
NoThread == "none"
NoReturn == [kind |-> "none", bit |-> 0]

\* all lists of n bits: what random.shuffle(bit_list) can leave
RECURSIVE BitLists(_)
BitLists(n) ==
    IF n = 0 THEN {<<>>}
    ELSE {Append(list, b) : list \in BitLists(n - 1), b \in Bits}

\* QuantumCoin.__init__ before any refill is asked for: the fields _buffer,
\* _buffer_index and _fetching; `pc`, `i`, `b`, `bit` are the frame of the
\* caller inside _next_bit, `ret` is what the last flip() gave back and
\* `refill` the position of every refill thread
QuantumCoin ==
    [buffer |-> <<>>, buffer_index |-> 0, fetching |-> FALSE,
     pc |-> "idle", i |-> 0, b |-> <<>>, bit |-> 0, ret |-> NoReturn,
     refill |-> [t \in Threads |-> NoThread]]

\* threading.Thread(target=self._refill_buffer).start(): a new thread stands
\* before the first line of _refill_buffer
thread_start(c) ==
    LET unused == {t \in Threads : c.refill[t] = NoThread}
    IN  {[c EXCEPT !.refill[t] = "102"] :
            t \in {u \in unused : \A v \in unused : u <= v}}

\* _maybe_refill_async(): nothing while a fetch is flagged, else a new thread
maybe_refill_async(c) == IF c.fetching THEN {c} ELSE thread_start(c)

\* the subscript self._buffer[self._buffer_index] on the list and the index
\* that were loaded: out of range is Python's IndexError
InRange(list, index) == index < Len(list)

\* one step of the caller inside _next_bit(): the coins it can lead to
next_bit(c) ==
    CASE c.pc = "192" ->
            {[c EXCEPT !.pc = "192len", !.i = c.buffer_index]}
      [] c.pc = "192len" ->
            {[c EXCEPT !.pc = IF c.i >= Len(c.buffer) THEN "193" ELSE "195",
                       !.i = 0]}
      [] c.pc = "193" ->
            {[d EXCEPT !.pc = "195"] : d \in maybe_refill_async(c)}
      [] c.pc = "195" ->
            {[c EXCEPT !.pc = "195len", !.i = c.buffer_index]}
      [] c.pc = "195len" ->
            IF c.i >= Len(c.buffer)
            THEN {[c EXCEPT !.pc = "idle", !.i = 0,
                            !.ret = [kind |-> "classical", bit |-> bit]] :
                     bit \in Bits}
            ELSE {[c EXCEPT !.pc = "200", !.i = 0]}
      [] c.pc = "200" ->
            {[c EXCEPT !.pc = "200index", !.b = c.buffer]}
      [] c.pc = "200index" ->
            IF InRange(c.b, c.buffer_index)
            THEN {[c EXCEPT !.pc = "201", !.bit = c.b[c.buffer_index + 1],
                            !.b = <<>>]}
            ELSE {[c EXCEPT !.pc = "idle", !.b = <<>>,
                            !.ret = [kind |-> "IndexError", bit |-> 0]]}
      [] c.pc = "201" ->
            {[c EXCEPT !.pc = "201store", !.i = c.buffer_index]}
      [] c.pc = "201store" ->
            {[c EXCEPT !.pc = "idle", !.buffer_index = c.i + 1, !.i = 0,
                       !.bit = 0, !.ret = [kind |-> "quantum", bit |-> c.bit]]}
      [] OTHER -> {}

\* how one quantum job can end: no counts (or no Qiskit), counts, or an
\* exception that leaves through `finally`
JobOutcomes == {"138", "156", "160"}

\* one step of thread t inside _refill_buffer(): the coins it can lead to
refill_buffer(c, t) ==
    CASE c.refill[t] = "102" ->
            {[c EXCEPT !.refill[t] = IF c.fetching THEN NoThread ELSE "104"]}
      [] c.refill[t] = "104" ->
            {[c EXCEPT !.fetching = TRUE, !.refill[t] = "105"]}
      [] c.refill[t] = "105" ->
            {[c EXCEPT !.refill[t] = line] : line \in JobOutcomes}
      [] c.refill[t] = "138" ->
            {[c EXCEPT !.buffer = <<>>, !.refill[t] = "139"]}
      [] c.refill[t] = "139" ->
            {[c EXCEPT !.buffer_index = 0, !.refill[t] = "160"]}
      [] c.refill[t] = "156" ->
            {[c EXCEPT !.buffer = bit_list, !.refill[t] = "157"] :
                bit_list \in BitLists(Shots)}
      [] c.refill[t] = "157" ->
            {[c EXCEPT !.buffer_index = 0, !.refill[t] = "160"]}
      [] c.refill[t] = "160" ->
            {[c EXCEPT !.fetching = FALSE, !.refill[t] = NoThread]}
      [] OTHER -> {}

----------------------------------------------------------------------------
(* The engine driven by any caller *)

Init ==
    /\ self = reset
    /\ call = [op |-> "reset", args |-> <<>>]
    /\ legal = TRUE
    /\ temp_first_cell = NoSquare
    /\ coin = QuantumCoin

\* both squares are empty on the classical board, which the callers check
Unoccupied(cell1, cell2) ==
    /\ self.collapsed_board[cell1] = NoMark
    /\ self.collapsed_board[cell2] = NoMark

\* the cap on the number of placements between two resets
MayPlace == self.move_counter["X"] + self.move_counter["O"] < MaxMoves

AddSpookyMove ==
    \E cell1, cell2 \in Cells :
        IF ~AddPrecondition(self, cell1, cell2)
        THEN UNCHANGED vars
        ELSE /\ MayPlace
             /\ \E r \in {add_spooky_move(self, cell1, cell2)} :
                    /\ self' = r.self
                    /\ call' = [op |-> "add_spooky_move", args |-> <<cell1, cell2>>]
                    /\ legal' = (legal /\ Unoccupied(cell1, cell2))
                    /\ UNCHANGED <<temp_first_cell, coin>>

CollapseStep ==
    \E chosen_cell \in Cells :
        \E r \in {collapse_step(self, chosen_cell)} :
            IF r.ret # "True" \/ r.self = self
            THEN UNCHANGED vars
            ELSE /\ self' = r.self
                 /\ call' = [op |-> "collapse_step", args |-> <<chosen_cell>>]
                 /\ UNCHANGED legal
                 /\ UNCHANGED <<temp_first_cell, coin>>

Reset ==
    /\ self' = reset
    /\ call' = [op |-> "reset", args |-> <<>>]
    /\ legal' = TRUE
    /\ UNCHANGED <<temp_first_cell, coin>>

Next == AddSpookyMove \/ CollapseStep \/ Reset

Spec == Init /\ [][Next]_vars

----------------------------------------------------------------------------
(* check_winner() on the boards of finished collapses *)

\* the marks of a player are numbered 1, 2, ... round the board, from one of
\* the squares 0 .. MaxStart on
MaxStart == 1

\* who owns each square: every way to give the 9 squares to X, to O or to nobody
Owners == [Squares -> {"None", "X", "O"}]

\* the place of square q in the round that starts at the square start
Turn(q, start) == (q + NumSquares - start) % NumSquares

\* the classical board of the owners own, every mark (player, index) on it once
BoardOf(own, start) ==
    [q \in Squares |->
        IF own[q] = "None" THEN NoMark
        ELSE <<own[q],
               Cardinality({t \in Squares :
                   own[t] = own[q] /\ Turn(t, start) <= Turn(q, start)})>>]

\* the number of marks of the player p on board
Marks(board, p) ==
    Cardinality({q \in Squares : board[q] # NoMark /\ board[q][1] = p})

\* an engine in PLAY whose placed moves are all resolved, on the board `board`
Resolved(board) ==
    [reset EXCEPT !.collapsed_board = board,
                  !.move_counter = [p \in Players |-> Marks(board, p)]]

InitWinner ==
    /\ \E own \in Owners : \E start \in 0 .. MaxStart :
           self = Resolved(BoardOf(own, start))
    /\ call = [op |-> "none", args |-> <<>>]
    /\ legal = TRUE
    /\ temp_first_cell = NoSquare
    /\ coin = QuantumCoin

\* a call of check_winner(); what it returned is kept with the call
CheckWinner ==
    \E r \in {check_winner(self)} :
        /\ self' = r.self
        /\ call' = [op |-> "check_winner", args |-> <<>>, ret |-> r.ret]
        /\ UNCHANGED legal
        /\ UNCHANGED <<temp_first_cell, coin>>

NextWinner == CheckWinner

SpecWinner == InitWinner /\ [][NextWinner]_vars

----------------------------------------------------------------------------
(* The engine with the quantum collapse button and check_winner() among    *)
(* the calls, in short games                                               *)

\* at most MaxMovesShort placements are made between two resets
MaxMovesShort == 3

PlaceShort ==
    \E cell1, cell2 \in Cells :
        IF ~AddPrecondition(self, cell1, cell2)
        THEN UNCHANGED vars
        ELSE /\ self.move_counter["X"] + self.move_counter["O"] < MaxMovesShort
             /\ \E r \in {add_spooky_move(self, cell1, cell2)} :
                    /\ self' = r.self
                    /\ call' = [op |-> "add_spooky_move", args |-> <<cell1, cell2>>]
                    /\ legal' = (legal /\ Unoccupied(cell1, cell2))
                    /\ UNCHANGED <<temp_first_cell, coin>>

\* the quantum collapse button; a press that gets as far as flip() is recorded
\* with what flip() did
QuantumCollapse ==
    \E outcome \in FlipOutcomes :
        IF self.mode # "COLLAPSE" \/ self.collapse_index >= Len(self.collapse_moves)
        THEN UNCHANGED vars
        ELSE \E r \in {quantum_collapse_current_move(self, outcome)} :
                 /\ self' = r.self
                 /\ call' = [op |-> "quantum_collapse_current_move",
                             args |-> <<outcome>>]
                 /\ UNCHANGED legal
                 /\ UNCHANGED <<temp_first_cell, coin>>

\* QuantumTicTacToeGUI.reset_game(): logic.reset(); the mode the engine was in
\* is kept with the call
NewGame ==
    /\ self' = reset
    /\ call' = [op |-> "reset", args |-> <<>>, mode |-> self.mode]
    /\ legal' = TRUE
    /\ temp_first_cell' = NoSquare
    /\ UNCHANGED coin

NextGui == PlaceShort \/ CollapseStep \/ QuantumCollapse \/ CheckWinner \/ NewGame

SpecGui == Init /\ [][NextGui]_vars

----------------------------------------------------------------------------
(* The engine driven through the GUI: clicks on the squares 0..MaxCell, the *)
(* quantum collapse button and the new-game button, in any order            *)

\* a click on a square; a call that the handler makes on the engine is kept
\* with what it returned
CellClick ==
    \E idx \in Cells :
        \E r \in {on_cell_click(self, temp_first_cell, idx)} :
            /\ self' = r.self
            /\ temp_first_cell' = r.temp_first_cell
            /\ call' = IF r.call = NoCall THEN call ELSE r.call
            /\ legal' = IF r.call.op = "add_spooky_move"
                        THEN legal /\ Unoccupied(r.call.args[1], r.call.args[2])
                        ELSE legal
            /\ UNCHANGED coin

NextClicks == CellClick \/ QuantumCollapse \/ NewGame

SpecClicks == Init /\ [][NextClicks]_vars

----------------------------------------------------------------------------
(* The coin: one caller of flip() and the refill threads, interleaved     *)

\* the end of QuantumCoin.__init__ (lines 90-94): no backend and no refill,
\* or a refill thread started (prefill_async), or one refill run to its end
\* by the constructor itself
NewCoins ==
    {QuantumCoin}
        \cup thread_start(QuantumCoin)
        \cup {[QuantumCoin EXCEPT !.buffer = bit_list] :
                 bit_list \in BitLists(Shots)}

InitCoin ==
    /\ self = reset
    /\ call = [op |-> "reset", args |-> <<>>]
    /\ legal = TRUE
    /\ temp_first_cell = NoSquare
    /\ coin \in NewCoins

\* the caller enters flip()
Flip ==
    /\ coin.pc = "idle"
    /\ coin' = [coin EXCEPT !.pc = "192", !.ret = NoReturn]
    /\ UNCHANGED <<self, call, legal, temp_first_cell>>

\* the caller takes its next step inside _next_bit()
NextBit ==
    /\ coin.pc # "idle"
    /\ coin' \in next_bit(coin)
    /\ UNCHANGED <<self, call, legal, temp_first_cell>>

\* a refill thread takes its next step inside _refill_buffer()
RefillBuffer ==
    /\ \E t \in Threads :
           /\ coin.refill[t] # NoThread
           /\ coin' \in refill_buffer(coin, t)
    /\ UNCHANGED <<self, call, legal, temp_first_cell>>

NextCoin == Flip \/ NextBit \/ RefillBuffer

SpecCoin == InitCoin /\ [][NextCoin]_vars

----------------------------------------------------------------------------
(* The engine on a wider part of the board, driven by callers that place   *)
(* on empty squares only, as the GUI's handle_play_click does              *)

\* squares 0..MaxCellWide are the ones callers pass to the engine
MaxCellWide == 3

CellsWide == 0 .. MaxCellWide

PlaceWide ==
    \E cell1, cell2 \in CellsWide :
        IF ~AddPrecondition(self, cell1, cell2)
        THEN UNCHANGED vars
        ELSE /\ self.move_counter["X"] + self.move_counter["O"] < MaxMovesShort
             /\ Unoccupied(cell1, cell2)
             /\ \E r \in {add_spooky_move(self, cell1, cell2)} :
                    /\ self' = r.self
                    /\ call' = [op |-> "add_spooky_move", args |-> <<cell1, cell2>>]
                    /\ UNCHANGED legal
                    /\ UNCHANGED <<temp_first_cell, coin>>

SelectWide ==
    \E chosen_cell \in CellsWide :
        \E r \in {collapse_step(self, chosen_cell)} :
            IF r.ret # "True" \/ r.self = self
            THEN UNCHANGED vars
            ELSE /\ self' = r.self
                 /\ call' = [op |-> "collapse_step", args |-> <<chosen_cell>>]
                 /\ UNCHANGED legal
                 /\ UNCHANGED <<temp_first_cell, coin>>

NextWide == PlaceWide \/ SelectWide \/ Reset

SpecWide == Init /\ [][NextWide]_vars

----------------------------------------------------------------------------
(* Definitions the properties are stated with *)

\* the squares of the move m, as a set
CellSet(m) == {m.cells[1], m.cells[2]}

\* the elements of a sequence
Range(seq) == {seq[i] : i \in DOMAIN seq}

RECURSIVE Closure(_, _)
\* the least set of squares that contains S and is closed under the edges of ms
Closure(S, ms) ==
    LET T == S \cup UNION {CellSet(ms[i]) :
                              i \in {j \in DOMAIN ms : CellSet(ms[j]) \cap S # {}}}
    IN  IF T = S THEN S ELSE Closure(T, ms)

\* b is joined to a by a path of edges of the moves ms
PathConnected(ms, a, b) == b \in Closure({a}, ms)

\* the step is a call of the method named o that went through
Called(o) == call'.op = o /\ self' # self

\* the step is a call add_spooky_move(a, b) that passed the two asserts
Placed == Called("add_spooky_move")

\* the arguments of the call that the step makes
Arg(i) == call'.args[i]

\* the move that the placing player's call add_spooky_move(a, b) creates
NewMove(a, b) ==
    [player |-> self.current_player,
     index |-> self.move_counter[self.current_player] + 1,
     cells |-> <<a, b>>,
     collapsed_to |-> NoSquare]

----------------------------------------------------------------------------
(* C1 *)

C1_Step ==
    Placed =>
        LET a == Arg(1)
            b == Arg(2)
        IN  /\ a # b
            /\ would_create_loop(self.moves, a, b) <=> PathConnected(self.moves, a, b)
            /\ (self'.mode = "COLLAPSE") <=> PathConnected(self.moves, a, b)

\* C1: whenever a move is placed on two distinct squares a, b,
\* would_create_loop((a, b)) on the ledger as it is before the call is true
\* exactly when b is joined to a by a path of edges of the moves in that
\* ledger, and the placement enters COLLAPSE exactly in that case.
C1_LoopIffConnectedBefore == [][C1_Step]_vars

\* a loop was closed through a chain of two or more moves: no other implicated
\* move joins the two squares of the new move directly
C1_Witness ==
    /\ call.op = "add_spooky_move"
    /\ self.mode = "COLLAPSE"
    /\ Len(self.collapse_moves) >= 3
    /\ \A i \in DOMAIN self.collapse_moves :
           i # self.collapse_index + 1 =>
               CellSet(self.collapse_moves[i]) # {call.args[1], call.args[2]}

----------------------------------------------------------------------------
(* C2 *)

C2_Step ==
    (Placed /\ ~PathConnected(self.moves, Arg(1), Arg(2))) =>
            /\ self'.moves = Append(self.moves, NewMove(Arg(1), Arg(2)))
            /\ self'.current_player \in Players \ {self.current_player}
            /\ self.mode = "PLAY" /\ self'.mode = "PLAY"
            /\ self'.collapsed_board = self.collapsed_board
            /\ self'.collapse_moves = self.collapse_moves
            /\ self'.collapse_index = self.collapse_index
            /\ self'.cycle_creator = self.cycle_creator
            /\ self'.collapse_chooser = self.collapse_chooser
            /\ self'.next_player_after_collapse = self.next_player_after_collapse

\* C2: a placement in PLAY mode on two squares that are not joined in the
\* ledger appends the new unresolved move at the end of the ledger, passes the
\* turn to the other player, keeps the mode PLAY and leaves the classical
\* board and the collapse-episode fields as they were.
C2_NoLoopAppends == [][C2_Step]_vars

\* a placement that closed no loop was appended behind an older ledger move
C2_Witness ==
    /\ call.op = "add_spooky_move"
    /\ self.mode = "PLAY"
    /\ Len(self.moves) >= 2
    /\ self.moves[Len(self.moves)].cells = call.args
    /\ self.current_player # self.moves[Len(self.moves)].player

----------------------------------------------------------------------------
(* C3 *)

C3_Example ==
    (/\ self.mode = "PLAY"
     /\ self.moves = <<Move("X", 1, 0, 1), Move("O", 1, 1, 2)>>
     /\ self.current_player = "X"
     /\ self.move_counter["X"] = 1
     /\ Placed
     /\ call'.args = <<0, 2>>) =>
        /\ self'.cycle_creator = "X"
        /\ self'.collapse_chooser = "O"
        /\ self'.collapse_moves =
               <<Move("X", 1, 0, 1), Move("O", 1, 1, 2), Move("X", 2, 0, 2)>>

C3_Step ==
    (Placed /\ PathConnected(self.moves, Arg(1), Arg(2))) =>
            /\ self'.mode = "COLLAPSE"
            /\ self'.cycle_creator = self.current_player
            /\ self'.collapse_chooser \in Players \ {self.current_player}
            /\ self'.next_player_after_collapse = self'.collapse_chooser
            /\ self'.collapse_index + 1 \in DOMAIN self'.collapse_moves
            /\ self'.collapse_moves[self'.collapse_index + 1] =
                   NewMove(Arg(1), Arg(2))

\* C3: a placement that closes a loop puts the engine in COLLAPSE mode with
\* cycle_creator the placing player, collapse_chooser and
\* next_player_after_collapse the other player, and collapse_index at the new
\* move inside collapse_moves; after X(0,1), O(1,2), X(0,2) the creator is X,
\* the chooser is O and all three moves are implicated.
C3_LoopEntersCollapse == [][C3_Step /\ C3_Example]_vars

\* the engine right after X(0,1), O(1,2), X(0,2)
C3_Witness ==
    /\ call = [op |-> "add_spooky_move", args |-> <<0, 2>>]
    /\ self.mode = "COLLAPSE"
    /\ self.cycle_creator = "X"
    /\ self.collapse_moves =
           <<Move("X", 1, 0, 1), Move("O", 1, 1, 2), Move("X", 2, 0, 2)>>
    /\ self.collapse_index = 2

----------------------------------------------------------------------------
(* C4 *)

\* the step is a collapse_step call that ends the collapse episode
EpisodeEnds ==
    /\ Called("collapse_step")
    /\ \/ self'.mode = "PLAY"
       \/ self'.collapse_index >= Len(self'.collapse_moves)

C4_Step ==
    EpisodeEnds =>
        /\ self'.mode = "PLAY"
        /\ self.collapse_chooser \in Players
        /\ self.collapse_chooser # self.cycle_creator
        /\ self'.current_player = self.collapse_chooser
        /\ self'.current_player # self.cycle_creator

\* C4: the collapse_step that ends a collapse episode leaves the mode PLAY and
\* the turn with the chooser of that episode, who is not the cycle creator,
\* whichever players' moves were resolved.
C4_ChooserResumes == [][C4_Step]_vars

\* an episode has just ended in which moves of both players were resolved
C4_Witness ==
    /\ call.op = "collapse_step"
    /\ self.mode = "PLAY"
    /\ self.current_player = self.collapse_chooser
    /\ \A p \in Players :
           \E i \in DOMAIN self.collapse_moves :
               /\ self.collapse_moves[i].player = p
               /\ self.collapse_moves[i].collapsed_to # NoSquare

----------------------------------------------------------------------------
(* C5 *)

\* the identity (player, sequence number) of the move m
Mark(m) == <<m.player, m.index>>

C5_Board ==
    /\ \A i \in DOMAIN self.collapse_moves :
           LET m == self.collapse_moves[i]
           IN  m.collapsed_to # NoSquare =>
                   /\ m.collapsed_to \in CellSet(m)
                   /\ self.collapsed_board[m.collapsed_to] = Mark(m)
    /\ \A i, j \in DOMAIN self.collapse_moves :
           (/\ i # j
            /\ self.collapse_moves[i].collapsed_to # NoSquare
            /\ self.collapse_moves[j].collapsed_to # NoSquare) =>
               self.collapse_moves[i].collapsed_to # self.collapse_moves[j].collapsed_to
    /\ \A sq1, sq2 \in Squares :
           (sq1 # sq2 /\ self.collapsed_board[sq1] # NoMark) =>
               self.collapsed_board[sq1] # self.collapsed_board[sq2]

C5_Step ==
    call'.op # "reset" =>
        \A sq \in Squares :
            self.collapsed_board[sq] # NoMark =>
                self'.collapsed_board[sq] = self.collapsed_board[sq]

\* C5: every resolved move of the implicated list sits on exactly one square,
\* one of its own two, and the board shows its identity there; no two resolved
\* moves share a square; no identity (player, sequence number) is on two
\* squares; and an occupied square keeps its occupant through every call
\* except reset.
C5_OneMovePerSquare == [] C5_Board /\ [][C5_Step]_vars

\* an episode has ended in which a move was resolved while its other square
\* was held by a move of an earlier episode
C5_Witness ==
    /\ call.op = "collapse_step"
    /\ \E i \in DOMAIN self.collapse_moves :
           LET m == self.collapse_moves[i]
           IN  /\ m.collapsed_to # NoSquare
               /\ \E c \in CellSet(m) \ {m.collapsed_to} :
                      /\ self.collapsed_board[c] # NoMark
                      /\ self.collapsed_board[c] \notin
                             {Mark(self.collapse_moves[j]) : j \in DOMAIN self.collapse_moves}

----------------------------------------------------------------------------
(* C6 *)

\* a collapse episode is running and its cursor is inside the implicated list
AwaitingSelection ==
    /\ self.mode = "COLLAPSE"
    /\ self.collapse_index < Len(self.collapse_moves)

\* the move at the cursor
CursorMove == self.collapse_moves[self.collapse_index + 1]

\* C6: during a collapse episode, collapse_step with a square that is not one
\* of the cursor move's two, or that is occupied on the classical board,
\* returns False and leaves every field of the engine as it was.
C6_RejectedChangesNothing ==
    AwaitingSelection =>
        \A sq \in Squares :
            (sq \notin CellSet(CursorMove) \/ self.collapsed_board[sq] # NoMark) =>
                collapse_step(self, sq) = [ret |-> "False", self |-> self]

\* a collapse episode whose cursor move has one occupied and one empty square
C6_Witness ==
    /\ AwaitingSelection
    /\ \E c \in CellSet(CursorMove) : self.collapsed_board[c] # NoMark
    /\ \E c \in CellSet(CursorMove) : self.collapsed_board[c] = NoMark

----------------------------------------------------------------------------
(* C7 *)

\* C7 as claimed: collapse_step returns a boolean in every state, and it
\* returns False without a state change when the cursor is past the end of
\* the implicated list, PLAY mode included.
C7_NeverThrows ==
    \A sq \in Squares :
        LET r == collapse_step(self, sq)
        IN  /\ r.ret \in {"True", "False"}
            /\ self.collapse_index >= Len(self.collapse_moves) =>
                   r = [ret |-> "False", self |-> self]

\* C7 as amended: in COLLAPSE mode the cursor is inside the implicated list
\* and collapse_step returns True or False for every square; in PLAY mode,
\* where alone the cursor is past the end, the call fails its assert and
\* changes no field.
C7_ThrowsOnlyInPlay ==
    \A sq \in Squares :
        LET r == collapse_step(self, sq)
        IN  /\ self.mode = "COLLAPSE" =>
                   /\ self.collapse_index < Len(self.collapse_moves)
                   /\ r.ret \in {"True", "False"}
            /\ self.mode = "PLAY" =>
                   /\ self.collapse_index >= Len(self.collapse_moves)
                   /\ r = [ret |-> "AssertionError", self |-> self]

\* an episode has ended: PLAY mode, the cursor behind the last implicated move
C7_Witness ==
    /\ self.mode = "PLAY"
    /\ call.op = "collapse_step"
    /\ self.collapse_moves # <<>>
    /\ self.collapse_index >= Len(self.collapse_moves)

----------------------------------------------------------------------------
(* C8 *)

\* C8: add_spooky_move in COLLAPSE mode, or with cell1 = cell2, fails its
\* assert, and every field of the engine is as before the call.
C8_PreconditionFailure ==
    \A cell1, cell2 \in Cells :
        (self.mode = "COLLAPSE" \/ cell1 = cell2) =>
            add_spooky_move(self, cell1, cell2) =
                [ret |-> "AssertionError", self |-> self]

\* a second collapse episode is running, with squares occupied by the first
C8_Witness ==
    /\ self.mode = "COLLAPSE"
    /\ \E sq \in Squares : self.collapsed_board[sq] # NoMark

----------------------------------------------------------------------------
(* C9 *)

C9_Modes == self.mode \in {"PLAY", "COLLAPSE"}

C9_Start == self.mode = "PLAY"

\* every move of the implicated list of s is resolved
AllResolved(s) ==
    \A i \in DOMAIN s.collapse_moves : s.collapse_moves[i].collapsed_to # NoSquare

C9_Enter ==
    (self.mode = "PLAY" /\ self'.mode = "COLLAPSE") =>
        /\ Placed
        /\ PathConnected(self.moves, Arg(1), Arg(2))

C9_LeaveResolved ==
    (self.mode = "COLLAPSE" /\ self'.mode = "PLAY") =>
        \/ call'.op = "reset"
        \/ Called("collapse_step") /\ AllResolved(self')

C9_Leave ==
    (self.mode = "COLLAPSE" /\ self'.mode = "PLAY") =>
        \/ call'.op = "reset"
        \/ /\ Called("collapse_step")
           /\ self'.collapse_index >= Len(self'.collapse_moves)
           /\ legal => AllResolved(self')

\* C9 as claimed: the mode is PLAY or COLLAPSE and starts at PLAY; it goes
\* from PLAY to COLLAPSE only by a placement that closes a loop, and from
\* COLLAPSE to PLAY only by a reset or by an accepted collapse_step after
\* which every implicated move is resolved.
C9_ModeTransitions ==
    C9_Start /\ [] C9_Modes /\ [][C9_Enter /\ C9_LeaveResolved]_vars

\* C9 as amended: as claimed, except that the accepted collapse_step that
\* returns to PLAY is the one that moves the cursor behind the last implicated
\* move; every implicated move is then resolved if all placements since the
\* last reset were on empty squares.
C9_ModeTransitionsCursor ==
    C9_Start /\ [] C9_Modes /\ [][C9_Enter /\ C9_Leave]_vars

\* an episode has ended with all its moves resolved, after legal placements
C9_Witness ==
    /\ call.op = "collapse_step"
    /\ self.mode = "PLAY"
    /\ legal
    /\ Len(self.collapse_moves) >= 3
    /\ AllResolved(self)

----------------------------------------------------------------------------
(* C10 *)

\* the moves the engine holds, in the ledger and in the implicated list
Held == self.moves \o self.collapse_moves

C10_Numbers ==
    /\ \A i \in DOMAIN Held :
           Held[i].index \in 1 .. self.move_counter[Held[i].player]
    /\ \A i, j \in DOMAIN Held :
           (i # j /\ Held[i].player = Held[j].player) => Held[i].index # Held[j].index
    /\ \A sq \in Squares :
           self.collapsed_board[sq] # NoMark =>
               self.collapsed_board[sq][2] \in
                   1 .. self.move_counter[self.collapsed_board[sq][1]]

C10_Step ==
    /\ Placed =>
           LET p == self.current_player
               q == CHOOSE x \in Players : x # p
               new == IF self'.mode = "PLAY"
                      THEN self'.moves[Len(self'.moves)]
                      ELSE self'.collapse_moves[self'.collapse_index + 1]
           IN  /\ self'.move_counter[p] = self.move_counter[p] + 1
               /\ self'.move_counter[q] = self.move_counter[q]
               /\ new.player = p
               /\ new.index = self'.move_counter[p]
               /\ new.cells = call'.args
    /\ Called("collapse_step") => self'.move_counter = self.move_counter

\* C10: a placement raises the placing player's counter by exactly 1, leaves
\* the other counter alone and numbers the new move with the new value; the
\* moves of one player carry different numbers, each between 1 and that
\* player's counter; collapse_step changes neither counter.
C10_SequenceNumbers == [] C10_Numbers /\ [][C10_Step]_vars

\* after a collapse, both players have placed two moves, numbered 1 and 2
C10_Witness ==
    /\ call.op = "collapse_step"
    /\ \A p \in Players :
           /\ self.move_counter[p] = 2
           /\ \A n \in 1 .. 2 :
                  \/ \E i \in DOMAIN Held : Mark(Held[i]) = <<p, n>>
                  \/ \E sq \in Squares : self.collapsed_board[sq] = <<p, n>>

----------------------------------------------------------------------------
(* Definitions the properties of check_winner are stated with *)

\* the 8 lines of the board as sets of squares: rows, columns and diagonals
StandardLines ==
    {{3 * r, 3 * r + 1, 3 * r + 2} : r \in 0 .. 2}
    \cup {{c, c + 3, c + 6} : c \in 0 .. 2}
    \cup {{0, 4, 8}, {2, 4, 6}}

\* the square q is resolved to the player p
Owns(p, q) ==
    self.collapsed_board[q] # NoMark /\ self.collapsed_board[q][1] = p

\* the lines whose three squares are all resolved to the player p
FullLines(p) == {l \in StandardLines : \A q \in l : Owns(p, q)}

RECURSIVE IndexSum(_)
\* the sum of the sequence numbers of the marks on the squares S
IndexSum(S) ==
    IF S = {} THEN 0
    ELSE LET q == Min(S)
         IN  self.collapsed_board[q][2] + IndexSum(S \ {q})

\* the least sum among the full lines of the player p
MinSum(p) == Min({IndexSum(l) : l \in FullLines(p)})

\* the squares of a line that check_winner returned
LineOf(line) == {line[1], line[2], line[3]}

\* line is a full line of p, its sum is s, and no full line of p has less
MinLine(p, line, s) ==
    /\ LineOf(line) \in FullLines(p)
    /\ IndexSum(LineOf(line)) = s
    /\ s = MinSum(p)

\* the last call was check_winner(); call.ret is what it returned
Judged == call.op = "check_winner"

----------------------------------------------------------------------------
(* C11 *)

\* C11: when both players have a full line, check_winner returns the player
\* whose least line sum is strictly smaller, with a line of that sum, the sum,
\* and the other player's (player, line, sum) for that player's least sum;
\* when the two least sums are equal it returns a draw with the shared sum.
C11_BothHaveLines ==
    (Judged /\ FullLines("X") # {} /\ FullLines("O") # {}) =>
        LET r == call.ret
            mx == MinSum("X")
            mo == MinSum("O")
        IN  /\ mx < mo =>
                   /\ Len(r) = 4 /\ r[1] = "X" /\ MinLine("X", r[2], r[3])
                   /\ Len(r[4]) = 3 /\ r[4][1] = "O"
                   /\ MinLine("O", r[4][2], r[4][3])
            /\ mo < mx =>
                   /\ Len(r) = 4 /\ r[1] = "O" /\ MinLine("O", r[2], r[3])
                   /\ Len(r[4]) = 3 /\ r[4][1] = "X"
                   /\ MinLine("X", r[4][2], r[4][3])
            /\ mx = mo => r = <<"DRAW", NoLine, mx>>

\* both players have a full line and O's least sum is the smaller one
C11_Witness ==
    /\ Judged
    /\ Len(call.ret) = 4
    /\ call.ret[1] = "O"
    /\ FullLines("X") # {}
    /\ MinSum("O") < MinSum("X")

----------------------------------------------------------------------------
(* C12 *)

\* C12: when exactly one player p has full lines, check_winner returns p, one
\* of p's full lines whose sum is the least among p's full lines, and that sum.
C12_OneHasLines ==
    Judged =>
        \A p \in Players :
            (FullLines(p) # {} /\ FullLines(other_player(p)) = {}) =>
                /\ Len(call.ret) = 3
                /\ call.ret[1] = p
                /\ MinLine(p, call.ret[2], call.ret[3])

\* the only winner has two full lines of different sums
C12_Witness ==
    /\ Judged
    /\ Len(call.ret) = 3
    /\ call.ret[1] \in Players
    /\ \E l \in FullLines(call.ret[1]) : IndexSum(l) > call.ret[3]

----------------------------------------------------------------------------
(* C13 *)

\* C13: check_winner returns None exactly when none of the 8 lines has its
\* three squares resolved to one player.
C13_NoneIffNoLine ==
    Judged =>
        (call.ret = NoResult <=> \A p \in Players : FullLines(p) = {})

\* None on a board where a line is fully resolved, to marks of both players
C13_Witness ==
    /\ Judged
    /\ call.ret = NoResult
    /\ \E l \in StandardLines : \A q \in l : self.collapsed_board[q] # NoMark

----------------------------------------------------------------------------
(* C14 *)

C14_Step ==
    call'.op = "check_winner" =>
        /\ self' = self
        /\ check_winner(self').ret = call'.ret

\* C14: a call of check_winner, in PLAY or in COLLAPSE, leaves every field of
\* the engine as it was, and a second call right after it returns what the
\* first returned.
C14_CheckWinnerPure == [][C14_Step]_vars

\* check_winner was called in the middle of a collapse episode
C14_Witness ==
    /\ Judged
    /\ self.mode = "COLLAPSE"
    /\ self.collapse_index < Len(self.collapse_moves)

----------------------------------------------------------------------------
(* C15 *)

\* the session as it is described for a new game
Fresh ==
    /\ self.mode = "PLAY"
    /\ self.moves = <<>>
    /\ \A sq \in Squares : self.collapsed_board[sq] = NoMark
    /\ \A p \in Players : self.move_counter[p] = 0
    /\ self.current_player = "X"
    /\ self.collapse_moves = <<>>
    /\ self.collapse_index = 0
    /\ self.cycle_creator = "None"
    /\ self.collapse_chooser = "None"
    /\ self.next_player_after_collapse = "None"

C15_Step == call'.op = "reset" => Fresh'

\* C15: the session starts fresh, and reset() from any state, in the middle
\* of a collapse episode too, gives the same fresh session: PLAY, empty
\* ledger, empty board, both counters 0, X to move, no implicated move,
\* cursor 0, no creator, chooser or resuming player.
C15_ResetIsFresh == Fresh /\ [][C15_Step]_vars

\* reset() was called in the middle of a collapse episode
C15_Witness ==
    /\ call.op = "reset"
    /\ "mode" \in DOMAIN call
    /\ call.mode = "COLLAPSE"
    /\ Fresh

----------------------------------------------------------------------------
(* C16 *)

\* the step is a press of the quantum collapse button during which flip() raised
FlipFailed ==
    /\ call'.op = "quantum_collapse_current_move"
    /\ call'.args[1] = FlipRaises

C16_Step ==
    FlipFailed =>
        /\ self' = self
        /\ self'.mode = "COLLAPSE"
        /\ self'.collapse_index < Len(self'.collapse_moves)
        /\ \A c \in Cells : collapse_step(self', c).ret # "AssertionError"

\* C16: when flip() raises during a quantum collapse, no field of the engine
\* changes: the engine is still in COLLAPSE with the cursor on the same
\* implicated move, and collapse_step can be called on it.
C16_FlipErrorChangesNothing == [][C16_Step]_vars

\* flip() raised, and a manual selection for the cursor move is then accepted
C16_Witness ==
    /\ call.op = "quantum_collapse_current_move"
    /\ call.args = <<FlipRaises>>
    /\ AwaitingSelection
    /\ \E c \in CellSet(CursorMove) :
           /\ collapse_step(self, c).ret = "True"
           /\ collapse_step(self, c).self.mode = "PLAY"

----------------------------------------------------------------------------
(* C17 *)

\* the entries of seq at the positions I, in the order of seq
Picked(seq, I) ==
    [k \in 1 .. Cardinality(I) |->
        seq[CHOOSE i \in I : Cardinality({j \in I : j <= i}) = k]]

C17_Step ==
    (Placed /\ self'.mode = "COLLAPSE") =>
        \A all \in {Append(self.moves, NewMove(Arg(1), Arg(2)))} :
        \A component \in {Closure({Arg(1)}, all)} :
        \A inside \in {{i \in DOMAIN all : all[i].cells[1] \in component}} :
            /\ self'.collapse_moves = Picked(all, inside)
            /\ self'.moves = Picked(all, DOMAIN all \ inside)
            /\ Len(self'.collapse_moves) + Len(self'.moves) = Len(all)
            /\ \A i \in DOMAIN all :
                   (all[i] \in Range(self'.collapse_moves))
                       # (all[i] \in Range(self'.moves))

----------------------------------------------------------------------------
(* C18 *)

\* the squares of the move m that are empty on the classical board
EmptyCells(m) == {c \in CellSet(m) : self.collapsed_board[c] = NoMark}

\* C18: after every accepted collapse_step no unresolved implicated move has
\* exactly one empty square, and the propagation scan run again on that state
\* changes neither the board nor a move.
C18_PropagationFixpoint ==
    call.op = "collapse_step" =>
        /\ \A i \in DOMAIN self.collapse_moves :
               self.collapse_moves[i].collapsed_to = NoSquare =>
                   Cardinality(EmptyCells(self.collapse_moves[i])) # 1
        /\ ForcedPropagation(self.collapse_moves, self.collapsed_board)
               = [cm |-> self.collapse_moves, board |-> self.collapsed_board]

\* one selection for the last of three implicated moves resolved all three,
\* the first of them on a square that only the second's resolution left
C18_Witness ==
    /\ call.op = "collapse_step"
    /\ Len(self.collapse_moves) = 3
    /\ AllResolved(self)
    /\ self.collapse_moves[3].collapsed_to = call.args[1]
    /\ self.collapse_moves[2].collapsed_to \in CellSet(self.collapse_moves[1])

----------------------------------------------------------------------------
(* C19 *)

\* the (player, index) pairs of the moves of a sequence
MarksOf(seq) == {Mark(seq[i]) : i \in DOMAIN seq}

\* the (player, index) pairs of the moves resolved on the classical board
MarksOnBoard ==
    {self.collapsed_board[sq] : sq \in Squares} \ {NoMark}

C19_Held ==
    /\ \A i \in DOMAIN self.moves : self.moves[i].collapsed_to = NoSquare
    /\ MarksOf(self.moves) \cap MarksOf(self.collapse_moves) = {}
    /\ MarksOf(self.moves) \cap MarksOnBoard = {}
    /\ \A i, j \in DOMAIN Held : Mark(Held[i]) = Mark(Held[j]) => i = j

C19_Step ==
    call'.op # "reset" =>
        MarksOf(self'.moves) \cap (MarksOf(self.collapse_moves) \cup MarksOnBoard) = {}

\* C19: every move of the ledger is unresolved, no move is in the ledger and
\* in the implicated list at once, no move is held twice, and a move that is
\* resolved or in the implicated list is never in the ledger again.
C19_OneContainer == [] C19_Held /\ [][C19_Step]_vars

\* an episode is over, its moves resolved, and a move that stood apart is
\* still in the ledger
C19_Witness ==
    /\ call.op = "collapse_step"
    /\ self.mode = "PLAY"
    /\ Len(self.moves) >= 1
    /\ Len(self.collapse_moves) >= 2
    /\ AllResolved(self)

----------------------------------------------------------------------------
(* C20 *)

\* no episode is held: the fields are as reset() leaves them
NoEpisode(s) ==
    /\ s.collapse_moves = <<>>
    /\ s.cycle_creator = "None"
    /\ s.collapse_chooser = "None"
    /\ s.next_player_after_collapse = "None"

\* the fields of the episode
Episode(s) ==
    <<s.collapse_moves, s.collapse_index, s.cycle_creator, s.collapse_chooser,
      s.next_player_after_collapse>>

\* C20 as stated: in PLAY mode the engine holds no episode, so after the
\* collapse_step that ends an episode the implicated list is empty and the
\* creator, the chooser and the resuming player are unset.
C20_NoEpisodeInPlay == self.mode = "PLAY" => NoEpisode(self)

C20_Step ==
    /\ (Called("collapse_step") /\ self'.mode = "PLAY") =>
           /\ self'.collapse_index = Len(self'.collapse_moves)
           /\ Len(self'.collapse_moves) = Len(self.collapse_moves)
           /\ Len(self'.collapse_moves) >= 1
           /\ MarksOf(self'.collapse_moves) = MarksOf(self.collapse_moves)
           /\ self'.cycle_creator = self.cycle_creator
           /\ self'.collapse_chooser = self.collapse_chooser
           /\ self'.next_player_after_collapse = self.next_player_after_collapse
           /\ self'.cycle_creator \in Players
           /\ self'.collapse_chooser = other_player(self'.cycle_creator)
    /\ (self.mode = "PLAY" /\ self'.mode = "PLAY" /\ call'.op # "reset") =>
           Episode(self') = Episode(self)

\* C20, amended: the collapse_step that ends an episode returns to PLAY with
\* the cursor at the end of the implicated list and keeps the list, the
\* creator, the chooser and the resuming player as they are; in PLAY these
\* fields stay so until a loop-closing placement or reset() assigns them.
C20_EpisodeKeptUntilNext == [][C20_Step]_vars

\* a move was placed after an episode, whose list and players are still held
C20_Witness ==
    /\ call.op = "add_spooky_move"
    /\ self.mode = "PLAY"
    /\ Len(self.collapse_moves) >= 2
    /\ self.collapse_index = Len(self.collapse_moves)
    /\ self.cycle_creator \in Players

----------------------------------------------------------------------------
(* C21 *)

\* what the selection of the square c for the cursor move does
C21_Selection(c) ==
    \A r \in {collapse_step(self, c)} :
        /\ r.ret = "True"
        /\ r.self.mode = "PLAY"
        /\ AllResolved(r.self)
        /\ r.self.collapse_index = Len(r.self.collapse_moves)

C21_Awaiting ==
    self.mode = "COLLAPSE" =>
        /\ self.collapse_index < Len(self.collapse_moves)
        /\ \A c \in CellSet(CursorMove) :
               /\ self.collapsed_board[c] = NoMark
               /\ C21_Selection(c)
        /\ \A i \in DOMAIN self.collapse_moves :
               self.collapse_moves[i].collapsed_to = NoSquare

C21_Step ==
    Called("collapse_step") =>
        /\ self'.mode = "PLAY"
        /\ AllResolved(self')

----------------------------------------------------------------------------
(* C22 *)

\* the sequence seq without its entry at position i
Without(seq, i) == SubSeq(seq, 1, i - 1) \o SubSeq(seq, i + 1, Len(seq))

\* no move of ms joins two squares that the other moves of ms join already
Forest(ms) ==
    \A i \in DOMAIN ms :
        ~PathConnected(Without(ms, i), ms[i].cells[1], ms[i].cells[2])

\* C22: when every placement is on two distinct empty squares, the moves of
\* the ledger form a forest on empty squares: no cycle, no pair of squares
\* twice, and no square of a ledger move occupied on the classical board.
C22_LedgerForest ==
    legal =>
        /\ Forest(self.moves)
        /\ \A i, j \in DOMAIN self.moves :
               i # j => CellSet(self.moves[i]) # CellSet(self.moves[j])
        /\ \A i \in DOMAIN self.moves :
               /\ Cardinality(CellSet(self.moves[i])) = 2
               /\ \A c \in CellSet(self.moves[i]) : self.collapsed_board[c] = NoMark

\* the ledger is a path of two moves through three squares
C22_Witness ==
    /\ legal
    /\ Len(self.moves) = 2
    /\ Cardinality(CellSet(self.moves[1]) \cap CellSet(self.moves[2])) = 1

----------------------------------------------------------------------------
(* C23 *)

C23_Step ==
    (Placed /\ self'.mode = "COLLAPSE") =>
        \A component \in
            {Closure({Arg(1)}, Append(self.moves, NewMove(Arg(1), Arg(2))))} :
            /\ \A i \in DOMAIN self'.collapse_moves :
                   CellSet(self'.collapse_moves[i]) \subseteq component
            /\ \A i \in DOMAIN self'.moves :
                   CellSet(self'.moves[i]) \cap component = {}

\* C23: at every loop-closing placement on (a, b) the split by the first
\* square is the split by both squares: every implicated move has its two
\* squares among the squares joined to a, and every move kept in the ledger
\* has none of its squares among them, in whichever order its squares were
\* given.
C23_FirstCellIsBothCells == [][C23_Step]_vars

\* a loop was closed with an implicated move whose first square is none of
\* the new move's squares
C23_Witness ==
    /\ call.op = "add_spooky_move"
    /\ self.mode = "COLLAPSE"
    /\ \E i \in DOMAIN self.collapse_moves :
           self.collapse_moves[i].cells[1] \notin {call.args[1], call.args[2]}

----------------------------------------------------------------------------
(* C24 *)

\* the number of squares that the callers use
UsedSquares == Cardinality(Cells)

\* the number of occupied squares of the classical board
Occupied ==
    Cardinality({sq \in Squares : self.collapsed_board[sq] # NoMark})

\* the number of unresolved moves, in the ledger and in the implicated list
Unresolved ==
    Len(self.moves)
    + Cardinality({i \in DOMAIN self.collapse_moves :
                      self.collapse_moves[i].collapsed_to = NoSquare})

\* the number of moves placed since the last reset
PlacedMoves == self.move_counter["X"] + self.move_counter["O"]

----------------------------------------------------------------------------
(* C25 *)

\* C25: X has placed as many moves as O or one more; in PLAY it is X's turn
\* exactly when both have placed the same number; in COLLAPSE the current
\* player is the creator of the cycle and is not the chooser.
C25_Alternation ==
    /\ self.move_counter["X"] - self.move_counter["O"] \in {0, 1}
    /\ self.mode = "PLAY" =>
           (self.current_player = "X"
               <=> self.move_counter["X"] = self.move_counter["O"])
    /\ self.mode = "COLLAPSE" =>
           /\ self.current_player = self.cycle_creator
           /\ self.current_player # self.collapse_chooser
           /\ self.collapse_chooser \in Players

C25_Step ==
    Placed =>
        /\ self.current_player = "X"
               <=> self.move_counter["X"] = self.move_counter["O"]
        /\ self'.move_counter[self.current_player]
               = self.move_counter[self.current_player] + 1

\* C25, with the steps: every placement is made by X when the counters are
\* equal and by O otherwise, also after a collapse episode.
C25_StrictAlternation == [] C25_Alternation /\ [][C25_Step]_vars

\* X placed right after an episode that O's loop opened and X's choice ended
C25_Witness ==
    /\ call.op = "add_spooky_move"
    /\ self.cycle_creator = "O"
    /\ self.mode = "PLAY"
    /\ self.move_counter["X"] = 2
    /\ self.move_counter["O"] = 1
    /\ self.current_player = "O"

----------------------------------------------------------------------------
(* C26 *)

\* the step makes a call of the method o on the engine
Invoked(o) == call'.op = o /\ (call' # call \/ self' # self)

C26_Step ==
    /\ Invoked("add_spooky_move") =>
           /\ self.mode = "PLAY"
           /\ Arg(1) # Arg(2)
           /\ Unoccupied(Arg(1), Arg(2))
           /\ call'.ret # "AssertionError"
    /\ Invoked("collapse_step") =>
           /\ self.mode = "COLLAPSE"
           /\ self.collapse_index < Len(self.collapse_moves)
           /\ call'.ret # "AssertionError"
    /\ (Invoked("quantum_collapse_current_move") /\ self' # self) =>
           /\ self.mode = "COLLAPSE"
           /\ self.collapse_index < Len(self.collapse_moves)

\* C26: driven by cell clicks, the quantum collapse button and the new-game
\* button in any order, add_spooky_move is called in PLAY only, on two
\* distinct empty squares, collapse_step is called in COLLAPSE only, with the
\* cursor inside the implicated list, and no assert of the engine fails.
C26_GuiKeepsPreconditions == [][C26_Step]_vars

\* the second click of a third pair closed a loop of three moves: the engine
\* is in COLLAPSE and temp_first_cell is cleared
C26_Witness ==
    /\ call.op = "add_spooky_move"
    /\ temp_first_cell = NoSquare
    /\ self.mode = "COLLAPSE"
    /\ Len(self.collapse_moves) = 3

----------------------------------------------------------------------------
(* C27 *)

\* flip() gave back a bit, read from the buffer or drawn classically
GaveBit == coin.ret.kind \in {"quantum", "classical"} /\ coin.ret.bit \in Bits

\* C27: under any interleaving of the caller with the refill threads, every
\* flip() that has returned gave back a single bit 0 or 1 and raised nothing:
\* the read self._buffer[self._buffer_index] is never out of range, also when
\* a thread replaces or empties the buffer between the bounds check of line
\* 195 and the read of line 200.
C27_FlipNeverRaises == coin.ret # NoReturn => GaveBit

====
